---- MODULE Spec2Model ----
(***************************************************************************)
(* HospitAI agent: the decision pipeline of backend/ai_agent.py            *)
(* (perceive -> reason -> plan -> execute, approve / reject) and the       *)
(* shared agent session of backend/api.py (agent_instance and the          *)
(* /api/agent endpoints).                                                  *)
(*                                                                         *)
(* Units: occupancy percentages are kept in tenths of a percent (the code  *)
(* rounds them to one decimal before they are classified), the staff ratio *)
(* in thousandths (the code rounds it to three decimals).                  *)
(***************************************************************************)
EXTENDS Integers, Sequences, FiniteSets, TLC

\* Number of requests (run, analysis, approve, reject) one behaviour issues.
MaxOps == 3

\* The callers of the approve / reject endpoints.
Clients == {"c1", "c2"}

(***************************************************************************)
(* HospitAIAgent.THRESHOLDS                                                *)
(***************************************************************************)
bed_occupancy_warning == 75
bed_occupancy_critical == 90
icu_occupancy_warning == 70
icu_occupancy_critical == 85
ventilator_critical == 80
\* staff_ratio_min is 0.15, here in thousandths
staff_ratio_min == 150
flu_surge_threshold == 50
aqi_critical == 150

(***************************************************************************)
(* Input: the daily series (the DataFrame df), oldest record first.        *)
(***************************************************************************)
Normal ==
    [total_beds |-> 200, occupied_beds |-> 100,
     total_icu_beds |-> 30, occupied_icu |-> 10,
     total_ventilators |-> 20, ventilators_used |-> 5,
     staff_on_duty |-> 80, pollution |-> 80, flu_cases |-> 10]

\* Scenario A of the specification: 170 of 200 beds.
DayBedsWarning == [Normal EXCEPT !.occupied_beds = 170]

\* Scenario B: 190 of 200 beds, 28 of 30 ICU beds, staff ratio 0.10.
DayScenarioB ==
    [Normal EXCEPT !.occupied_beds = 190, !.occupied_icu = 28,
                   !.staff_on_duty = 19]

DayEquipEnvFlu ==
    [Normal EXCEPT !.ventilators_used = 17, !.pollution = 160,
                   !.flu_cases = 60]

\* 25 beds more than three days before, ICU in its warning band.
DaySurge == [Normal EXCEPT !.occupied_beds = 125, !.occupied_icu = 22]

Frames ==
    { <<Normal, Normal, Normal>>,
      <<DayBedsWarning, DayBedsWarning, DayBedsWarning>>,
      <<DayScenarioB, DayScenarioB, DayScenarioB>>,
      <<DayEquipEnvFlu, DayEquipEnvFlu, DayEquipEnvFlu>>,
      <<Normal, Normal, DaySurge>> }

(***************************************************************************)
(* Python helpers                                                          *)
(***************************************************************************)
\* d.get(k, default)
Get(d, k, default) == IF k \in DOMAIN d THEN d[k] ELSE default

\* The empty dict
EmptyDict == <<>>

\* round(num / den * scale): nearest integer, a half rounds up
\* (num >= 0, den > 0).
RoundDiv(num, den, scale) == (2 * scale * num + den) \div (2 * den)

Max(a, b) == IF a >= b THEN a ELSE b

\* df[col].iloc[-n]
ILoc(df, n) == df[Len(df) - n + 1]

(***************************************************************************)
(* State                                                                   *)
(***************************************************************************)
VARIABLES
    initialized,        \* api.py: agent_instance is not None
    autonomous_mode,    \* agent.autonomous_mode
    actions_taken,      \* agent.actions_taken
    pending_actions,    \* agent.pending_actions
    reasoning_chain,    \* agent.reasoning_chain (the step of each thought)
    current_situation,  \* agent.current_situation
    AGENT_LOG,          \* the module-level audit log
    nextUid,            \* identity of the next AgentAction object constructed
    inflight,           \* approve / reject requests received and not yet handled
    responses           \* the responses returned so far, oldest first

vars ==
    <<initialized, autonomous_mode, actions_taken, pending_actions,
      reasoning_chain, current_situation, AGENT_LOG, nextUid, inflight,
      responses>>

NoRequest == [kind |-> "none"]

Init ==
    /\ initialized = FALSE
    /\ autonomous_mode = FALSE
    /\ actions_taken = <<>>
    /\ pending_actions = <<>>
    /\ reasoning_chain = <<>>
    /\ current_situation = EmptyDict
    /\ AGENT_LOG = <<>>
    /\ nextUid = 1
    /\ inflight = [c \in Clients |-> NoRequest]
    /\ responses = <<>>

(***************************************************************************)
(* PERCEPTION: HospitAIAgent.perceive and _calculate_trends                *)
(***************************************************************************)
\* The direction / velocity policy on the 3-day bed delta.
TrendDirection(bed_change_3d) ==
    IF bed_change_3d > 10 THEN "increasing"
    ELSE IF bed_change_3d < -10 THEN "decreasing"
    ELSE "stable"

\* Fault: a delta of exactly 20 (or -20) counted as rapid.
TrendVelocityInclusive(bed_change_3d) ==
    IF bed_change_3d > 10
    THEN (IF bed_change_3d >= 20 THEN "rapid" ELSE "moderate")
    ELSE IF bed_change_3d < -10
    THEN (IF bed_change_3d <= -20 THEN "rapid" ELSE "moderate")
    ELSE "slow"

TrendVelocity(bed_change_3d) ==
    IF bed_change_3d > 10
    THEN (IF bed_change_3d > 20 THEN "rapid" ELSE "moderate")
    ELSE IF bed_change_3d < -10
    THEN (IF bed_change_3d < -20 THEN "rapid" ELSE "moderate")
    ELSE "slow"

\* df[col].iloc[-1] - df[col].iloc[-n] for a series of at least n records,
\* and 0 for a shorter one.
Change(df, col, n) ==
    IF Len(df) >= n THEN ILoc(df, 1)[col] - ILoc(df, n)[col] ELSE 0

CalculateTrends(df) ==
    LET bed3 == Change(df, "occupied_beds", 3) IN
    [bed_change_1d |-> Change(df, "occupied_beds", 2),
     bed_change_3d |-> bed3,
     bed_change_7d |-> Change(df, "occupied_beds", 7),
     icu_change_3d |-> Change(df, "occupied_icu", 3),
     flu_change_3d |-> Change(df, "flu_cases", 3),
     direction |-> TrendDirection(bed3),
     velocity |-> TrendVelocity(bed3)]

\* The float results of a division by a zero total (the operands are numpy
\* integers: no exception).  Inf is above every threshold; every >= test on
\* NaN is false, as on a value below every threshold.
Inf == 1000000

NaN == -1

\* round(occupied / total * 100, 1), in tenths.
Percent(occupied, total) ==
    IF total # 0 THEN RoundDiv(occupied, total, 1000)
    ELSE IF occupied = 0 THEN NaN
    ELSE Inf

\* The situation perceive stores in current_situation.
Perceive(df) ==
    LET latest == ILoc(df, 1) IN
    [metrics |->
        [bed_occupancy |->
            Percent(latest.occupied_beds, latest.total_beds),
         icu_occupancy |->
            Percent(latest.occupied_icu, latest.total_icu_beds),
         ventilator_usage |->
            Percent(latest.ventilators_used, latest.total_ventilators),
         staff_ratio |->
            RoundDiv(latest.staff_on_duty, Max(latest.occupied_beds, 1), 1000),
         total_beds |-> latest.total_beds,
         occupied_beds |-> latest.occupied_beds,
         available_beds |-> latest.total_beds - latest.occupied_beds,
         total_icu |-> latest.total_icu_beds,
         occupied_icu |-> latest.occupied_icu,
         available_icu |-> latest.total_icu_beds - latest.occupied_icu],
     trends |-> CalculateTrends(df),
     environment |->
        [pollution_aqi |-> latest.pollution, flu_cases |-> latest.flu_cases]]

(***************************************************************************)
(* REASONING: HospitAIAgent.reason                                         *)
(***************************************************************************)
Issue(type, resource, severity, value) ==
    [type |-> type, resource |-> resource, severity |-> severity,
     value |-> value]

\* Fault: the warning test as an independent if, not an elif.
BedIssuesBothBands(bed_occ) ==
    (IF bed_occ >= bed_occupancy_critical * 10
     THEN <<Issue("capacity_critical", "beds", "EMERGENCY", bed_occ)>>
     ELSE <<>>)
    \o (IF bed_occ >= bed_occupancy_warning * 10
        THEN <<Issue("capacity_warning", "beds", "WARNING", bed_occ)>>
        ELSE <<>>)

BedIssues(bed_occ) ==
    IF bed_occ >= bed_occupancy_critical * 10
    THEN <<Issue("capacity_critical", "beds", "EMERGENCY", bed_occ)>>
    ELSE IF bed_occ >= bed_occupancy_warning * 10
    THEN <<Issue("capacity_warning", "beds", "WARNING", bed_occ)>>
    ELSE <<>>

IcuIssues(icu_occ) ==
    IF icu_occ >= icu_occupancy_critical * 10
    THEN <<Issue("capacity_critical", "icu", "EMERGENCY", icu_occ)>>
    ELSE IF icu_occ >= icu_occupancy_warning * 10
    THEN <<Issue("capacity_warning", "icu", "WARNING", icu_occ)>>
    ELSE <<>>

VentilatorIssues(vent_usage) ==
    IF vent_usage >= ventilator_critical * 10
    THEN <<Issue("equipment_critical", "ventilators", "CRITICAL", vent_usage)>>
    ELSE <<>>

StaffIssues(staff_ratio) ==
    IF staff_ratio < staff_ratio_min
    THEN <<Issue("staffing_shortage", "staff", "CRITICAL", staff_ratio)>>
    ELSE <<>>

AqiIssues(aqi) ==
    IF aqi >= aqi_critical
    THEN <<Issue("environmental_alert", "air_quality", "WARNING", aqi)>>
    ELSE <<>>

FluIssues(flu) ==
    IF flu >= flu_surge_threshold
    THEN <<Issue("disease_surge", "flu", "WARNING", flu)>>
    ELSE <<>>

\* Fault: the trend issue for any increase, whatever its velocity.
TrendIssuesAnyIncrease(trends) ==
    IF Get(trends, "direction", "None") = "increasing"
    THEN <<Issue("trend_alert", "capacity", "WARNING",
                 Get(trends, "bed_change_3d", 0))>>
    ELSE <<>>

TrendIssues(trends) ==
    IF Get(trends, "direction", "None") = "increasing"
       /\ Get(trends, "velocity", "None") = "rapid"
    THEN <<Issue("trend_alert", "capacity", "WARNING",
                 Get(trends, "bed_change_3d", 0))>>
    ELSE <<>>

\* Fault: the trend checked first and the staff before the ventilators.
ReasonReordered(situation) ==
    LET metrics == Get(situation, "metrics", EmptyDict)
        trends == Get(situation, "trends", EmptyDict)
        env == Get(situation, "environment", EmptyDict)
    IN  TrendIssues(trends)
        \o BedIssues(Get(metrics, "bed_occupancy", 0))
        \o IcuIssues(Get(metrics, "icu_occupancy", 0))
        \o StaffIssues(Get(metrics, "staff_ratio", 1000))
        \o VentilatorIssues(Get(metrics, "ventilator_usage", 0))
        \o AqiIssues(Get(env, "pollution_aqi", 0))
        \o FluIssues(Get(env, "flu_cases", 0))

\* The issue list of reason() for the stored situation.
Reason(situation) ==
    LET metrics == Get(situation, "metrics", EmptyDict)
        trends == Get(situation, "trends", EmptyDict)
        env == Get(situation, "environment", EmptyDict)
    IN  BedIssues(Get(metrics, "bed_occupancy", 0))
        \o IcuIssues(Get(metrics, "icu_occupancy", 0))
        \o VentilatorIssues(Get(metrics, "ventilator_usage", 0))
        \o StaffIssues(Get(metrics, "staff_ratio", 1000))
        \o AqiIssues(Get(env, "pollution_aqi", 0))
        \o FluIssues(Get(env, "flu_cases", 0))
        \o TrendIssues(trends)

(***************************************************************************)
(* PLANNING: HospitAIAgent.plan                                            *)
(***************************************************************************)
\* AgentAction(...): auto_executed defaults to False, requires_approval to
\* True, outcome to None.  The uid is given when the plan is numbered.
AgentAction(action_type, description, priority, auto, approval) ==
    [action_type |-> action_type, description |-> description,
     priority |-> priority, auto_executed |-> auto,
     requires_approval |-> approval, outcome |-> "None"]

PlanBedsCritical(mode) ==
    << AgentAction("diversion", "Activate ambulance diversion protocol",
                   5, FALSE, ~mode),
       AgentAction("protocol_activation", "Activate surge capacity protocol",
                   5, FALSE, TRUE) >>

PlanBedsWarning(mode) ==
    << AgentAction("alert", "Alert bed management team", 3, mode, FALSE),
       AgentAction("resource_request", "Request discharge planning review",
                   3, FALSE, FALSE) >>

\* Fault: the ICU alert gated by the mode like the bed-management alert.
PlanIcuCriticalModeGated(mode) ==
    << AgentAction("alert", "URGENT: ICU at critical capacity",
                   5, mode, FALSE),
       AgentAction("resource_request", "Request ICU step-down evaluations",
                   4, FALSE, FALSE) >>

PlanIcuCritical(mode) ==
    << AgentAction("alert", "URGENT: ICU at critical capacity",
                   5, TRUE, FALSE),
       AgentAction("resource_request", "Request ICU step-down evaluations",
                   4, FALSE, FALSE) >>

\* Fault: the staff callback always kept for approval.
PlanStaffingShortageAlwaysApproval(mode) ==
    << AgentAction("staff_call", "Initiate emergency staff callback",
                   4, FALSE, TRUE),
       AgentAction("alert", "Alert staffing office", 4, TRUE, FALSE) >>

PlanStaffingShortage(mode) ==
    << AgentAction("staff_call", "Initiate emergency staff callback",
                   4, FALSE, ~mode),
       AgentAction("alert", "Alert staffing office", 4, TRUE, FALSE) >>

\* Fault: the supply order gated by the mode like the diversion.
PlanEquipmentCriticalModeGated(mode) ==
    << AgentAction("supply_order", "Request emergency ventilator allocation",
                   5, FALSE, ~mode) >>

PlanEquipmentCritical(mode) ==
    << AgentAction("supply_order", "Request emergency ventilator allocation",
                   5, FALSE, TRUE) >>

PlanEnvironmentalAlert(mode) ==
    << AgentAction("alert", "Environmental alert", 2, TRUE, FALSE) >>

PlanDiseaseSurge(mode) ==
    << AgentAction("protocol_activation",
                   "Consider activating flu surge protocol", 3, FALSE, TRUE) >>

PlanTrendAlert(mode) ==
    << AgentAction("alert", "Trend alert", 3, TRUE, FALSE) >>

\* The if / elif chain of plan for one issue.
PlanIssue(issue, mode) ==
    IF issue.type = "capacity_critical" /\ issue.resource = "beds"
    THEN PlanBedsCritical(mode)
    ELSE IF issue.type = "capacity_warning" /\ issue.resource = "beds"
    THEN PlanBedsWarning(mode)
    ELSE IF issue.type = "capacity_critical" /\ issue.resource = "icu"
    THEN PlanIcuCritical(mode)
    ELSE IF issue.type = "staffing_shortage" THEN PlanStaffingShortage(mode)
    ELSE IF issue.type = "equipment_critical" THEN PlanEquipmentCritical(mode)
    ELSE IF issue.type = "environmental_alert"
    THEN PlanEnvironmentalAlert(mode)
    ELSE IF issue.type = "disease_surge" THEN PlanDiseaseSurge(mode)
    ELSE IF issue.type = "trend_alert" THEN PlanTrendAlert(mode)
    ELSE <<>>

RECURSIVE PlanAll(_, _)
PlanAll(issues, mode) ==
    IF issues = <<>> THEN <<>>
    ELSE PlanIssue(Head(issues), mode) \o PlanAll(Tail(issues), mode)

\* Every AgentAction constructed is a new object: the k-th of a plan gets
\* identity base + k - 1.
Numbered(actions, base) ==
    [k \in 1..Len(actions) |->
        [uid |-> base + k - 1,
         action_type |-> actions[k].action_type,
         description |-> actions[k].description,
         priority |-> actions[k].priority,
         auto_executed |-> actions[k].auto_executed,
         requires_approval |-> actions[k].requires_approval,
         outcome |-> actions[k].outcome]]

\* actions.sort(key=priority, reverse=True): a stable sort, so an action is
\* placed behind those of a priority at least its own.
\* Fault: an unstable sort, placing an action before those of its priority.
RECURSIVE InsertBeforeEqualPriority(_, _)
InsertBeforeEqualPriority(sorted, a) ==
    IF sorted = <<>> THEN <<a>>
    ELSE IF Head(sorted).priority > a.priority
    THEN <<Head(sorted)>> \o InsertBeforeEqualPriority(Tail(sorted), a)
    ELSE <<a>> \o sorted

RECURSIVE InsertByPriority(_, _)
InsertByPriority(sorted, a) ==
    IF sorted = <<>> THEN <<a>>
    ELSE IF Head(sorted).priority >= a.priority
    THEN <<Head(sorted)>> \o InsertByPriority(Tail(sorted), a)
    ELSE <<a>> \o sorted

RECURSIVE SortByPriority(_)
SortByPriority(actions) ==
    IF actions = <<>> THEN <<>>
    ELSE InsertByPriority(SortByPriority(SubSeq(actions, 1, Len(actions) - 1)),
                          actions[Len(actions)])

Plan(issues, mode, base) ==
    SortByPriority(Numbered(PlanAll(issues, mode), base))

(***************************************************************************)
(* EXECUTION: HospitAIAgent.execute                                        *)
(***************************************************************************)
\* Fault: a gate that ignores the auto_executed flag of the plan.
ShouldAutoExecuteIgnoringFlag(action, mode) ==
    mode /\ ~action.requires_approval

\* The gate of execute.
ShouldAutoExecute(action, mode) ==
    action.auto_executed \/ (mode /\ ~action.requires_approval)

\* Fault: the outcome recorded without setting the auto_executed flag.
AutoExecutedUnflagged(action) ==
    [action EXCEPT !.outcome = "Executed automatically"]

AutoExecuted(action) ==
    [action EXCEPT !.auto_executed = TRUE, !.outcome = "Executed automatically"]

AutoLogEntry(action) ==
    [action |-> action.description, type |-> action.action_type, auto |-> TRUE]

\* The lists execute builds from the plan: executed and pending, in plan order.
ExecutedOf(actions, mode) ==
    LET Auto(a) == ShouldAutoExecute(a, mode)
        passed == SelectSeq(actions, Auto)
    IN  [k \in 1..Len(passed) |-> AutoExecuted(passed[k])]

PendingOf(actions, mode) ==
    LET Queued(a) == ~ShouldAutoExecute(a, mode)
    IN  SelectSeq(actions, Queued)

(***************************************************************************)
(* Approval queue: HospitAIAgent.approve_action / reject_action            *)
(***************************************************************************)
\* Fault: a guard without the lower bound.
IndexInRangeNoLowerBound(index, queue) == index < Len(queue)

\* Fault: the positions of the queue counted from 1.
IndexInRangeFromOne(index, queue) == 0 < index /\ index <= Len(queue)

\* The guard of approve_action and reject_action.
IndexInRange(index, queue) == 0 <= index /\ index < Len(queue)

\* list.pop(index): a negative index counts from the end; an index outside
\* the list raises IndexError.
\* Fault: pop() without its argument, taking the last action.
PopPositionLast(index, queue) == Len(queue)

PopPosition(index, queue) ==
    IF index < 0 THEN Len(queue) + index + 1 ELSE index + 1

PopRaises(index, queue) == PopPosition(index, queue) \notin 1..Len(queue)

Popped(index, queue) == queue[PopPosition(index, queue)]

\* Fault: the action read by index and left in the queue.
AfterPopKept(index, queue) == queue

AfterPop(index, queue) ==
    SubSeq(queue, 1, PopPosition(index, queue) - 1)
    \o SubSeq(queue, PopPosition(index, queue) + 1, Len(queue))

Approved(action) == [action EXCEPT !.outcome = "Approved and executed"]

Rejected(action) == [action EXCEPT !.outcome = "Rejected by operator"]

ApprovedLogEntry(action) ==
    [action |-> action.description, type |-> action.action_type,
     auto |-> FALSE, approved |-> TRUE]

\* Fault: a rejection logged with the entry of an approval.
RejectedLogEntryAsApproved(action) ==
    [action |-> action.description, type |-> action.action_type,
     auto |-> FALSE, approved |-> TRUE]

RejectedLogEntry(action) ==
    [action |-> action.description, type |-> action.action_type,
     auto |-> FALSE, approved |-> FALSE]

\* What a call leaves behind: its return value ("True", "False", or "raised"
\* for an exception), the lists after it and the action it resolved.
Unchanged(ret) ==
    [ret |-> ret, pending |-> pending_actions, taken |-> actions_taken,
     log |-> AGENT_LOG, uid |-> 0]

ApproveAction(index) ==
    IF IndexInRange(index, pending_actions)
    THEN IF PopRaises(index, pending_actions) THEN Unchanged("raised")
         ELSE LET action == Approved(Popped(index, pending_actions)) IN
              [ret |-> "True",
               pending |-> AfterPop(index, pending_actions),
               taken |-> Append(actions_taken, action),
               log |-> Append(AGENT_LOG, ApprovedLogEntry(action)),
               uid |-> action.uid]
    ELSE Unchanged("False")

\* Fault: a rejection that leaves no entry in the audit log.
RejectActionUnlogged(index) ==
    IF IndexInRange(index, pending_actions)
    THEN IF PopRaises(index, pending_actions) THEN Unchanged("raised")
         ELSE LET action == Rejected(Popped(index, pending_actions)) IN
              [ret |-> "True",
               pending |-> AfterPop(index, pending_actions),
               taken |-> actions_taken,
               log |-> AGENT_LOG,
               uid |-> action.uid]
    ELSE Unchanged("False")

RejectAction(index) ==
    IF IndexInRange(index, pending_actions)
    THEN IF PopRaises(index, pending_actions) THEN Unchanged("raised")
         ELSE LET action == Rejected(Popped(index, pending_actions)) IN
              [ret |-> "True",
               pending |-> AfterPop(index, pending_actions),
               taken |-> actions_taken,
               log |-> Append(AGENT_LOG, RejectedLogEntry(action)),
               uid |-> action.uid]
    ELSE Unchanged("False")

(***************************************************************************)
(* The endpoints of api.py on the shared agent_instance.  A handler is an  *)
(* async function without an await: it runs to completion on the event     *)
(* loop, so requests are handled one at a time, in any order.              *)
(***************************************************************************)
IsCall(r) == r.op \in {"approve", "reject"}

Issued == Len(responses) + Cardinality({c \in Clients : inflight[c] # NoRequest})

\* The items of actions_executed / actions_pending: "id" is the position in
\* the list of this cycle.
ResponseItems(actions, status) ==
    [i \in 1..Len(actions) |->
        [id |-> i - 1, uid |-> actions[i].uid,
         action_type |-> actions[i].action_type,
         description |-> actions[i].description,
         priority |-> actions[i].priority,
         auto_executed |-> actions[i].auto_executed,
         requires_approval |-> actions[i].requires_approval,
         status |-> status]]

\* Fault: the pending queue rebuilt by each cycle.
QueueForApprovalReplacing(queue, pending) == pending

\* self.pending_actions.append(action), for each action queued by a cycle.
QueueForApproval(queue, pending) == queue \o pending

\* POST /api/agent/run: run_agent, with HospitAIAgent.run_cycle.
RunAgent(df, mode) ==
    /\ Issued < MaxOps
    /\ LET situation == Perceive(df)
           issues == Reason(situation)
           actions == Plan(issues, mode, nextUid)
           executed == ExecutedOf(actions, mode)
           pending == PendingOf(actions, mode)
       IN  /\ initialized' = TRUE
           /\ autonomous_mode' = mode
           /\ current_situation' = situation
           /\ reasoning_chain' =
                <<"PERCEPTION", "REASONING", "PLANNING", "EXECUTION">>
           /\ nextUid' = nextUid + Len(actions)
           /\ actions_taken' = actions_taken \o executed
           /\ pending_actions' = QueueForApproval(pending_actions, pending)
           /\ AGENT_LOG' =
                AGENT_LOG
                \o [k \in 1..Len(executed) |-> AutoLogEntry(executed[k])]
           /\ responses' = Append(responses,
                [op |-> "run", df |-> df, autonomous_mode |-> mode,
                 situation |-> situation, issues |-> issues,
                 planned |-> actions,
                 actions_executed |-> ResponseItems(executed, "executed"),
                 actions_pending |-> ResponseItems(pending, "pending")])
    /\ UNCHANGED inflight

\* GET /api/agent/analysis: get_ai_analysis.
\* Fault: the analysis obtained by running a whole cycle.
GetAnalysisByCycle(df) ==
    /\ Issued < MaxOps
    /\ LET situation == Perceive(df)
           issues == Reason(situation)
           actions == Plan(issues, autonomous_mode, nextUid)
           executed == ExecutedOf(actions, autonomous_mode)
           pending == PendingOf(actions, autonomous_mode)
       IN  /\ initialized' = TRUE
           /\ current_situation' = situation
           /\ reasoning_chain' =
                <<"PERCEPTION", "REASONING", "PLANNING", "EXECUTION">>
           /\ nextUid' = nextUid + Len(actions)
           /\ actions_taken' = actions_taken \o executed
           /\ pending_actions' = pending_actions \o pending
           /\ AGENT_LOG' = AGENT_LOG
                \o [k \in 1..Len(executed) |-> AutoLogEntry(executed[k])]
           /\ responses' = Append(responses,
                [op |-> "analysis", issues |-> issues])
    /\ UNCHANGED <<autonomous_mode, inflight>>

GetAnalysis(df) ==
    /\ Issued < MaxOps
    /\ LET perceives == current_situation = EmptyDict
           situation == IF perceives THEN Perceive(df) ELSE current_situation
       IN  /\ initialized' = TRUE
           /\ current_situation' = situation
           /\ reasoning_chain' =
                reasoning_chain
                \o (IF perceives THEN <<"PERCEPTION">> ELSE <<>>)
                \o <<"REASONING">>
           /\ responses' = Append(responses,
                [op |-> "analysis", issues |-> Reason(situation)])
    /\ UNCHANGED <<autonomous_mode, actions_taken, pending_actions, AGENT_LOG,
                   nextUid, inflight>>

\* A caller sends POST /api/agent/approve/{ref} or /reject/{ref}.  The
\* callers are interchangeable: c2 is the one that sends while a request of
\* c1 is in flight.
Send(c, kind, ref) ==
    /\ Issued < MaxOps
    /\ inflight[c] = NoRequest
    /\ c = "c1" \/ inflight["c1"] # NoRequest
    /\ inflight' = [inflight EXCEPT
                      ![c] = [kind |-> kind, ref |-> ref,
                              sentAt |-> Len(responses)]]
    /\ UNCHANGED <<initialized, autonomous_mode, actions_taken, pending_actions,
                   reasoning_chain, current_situation, AGENT_LOG, nextUid,
                   responses>>

\* The handler of an approve or reject request: 400 without an agent, the
\* method's result otherwise (404 when it returns False).
Handle(c) ==
    /\ inflight[c] # NoRequest
    /\ LET req == inflight[c]
           out == IF ~initialized THEN Unchanged("not_initialized")
                  ELSE IF req.kind = "approve" THEN ApproveAction(req.ref)
                  ELSE RejectAction(req.ref)
       IN  /\ pending_actions' = out.pending
           /\ actions_taken' = out.taken
           /\ AGENT_LOG' = out.log
           /\ responses' = Append(responses,
                [op |-> req.kind, client |-> c, action_id |-> req.ref,
                 sentAt |-> req.sentAt, result |-> out.ret, uid |-> out.uid])
    /\ inflight' = [inflight EXCEPT ![c] = NoRequest]
    /\ UNCHANGED <<initialized, autonomous_mode, reasoning_chain,
                   current_situation, nextUid>>

Next ==
    \/ \E df \in Frames, mode \in BOOLEAN : RunAgent(df, mode)
    \/ \E df \in Frames : GetAnalysis(df)
    \/ \E c \in Clients, kind \in {"approve", "reject"},
          ref \in -1..Len(pending_actions) : Send(c, kind, ref)
    \/ \E c \in Clients : Handle(c)

Spec == Init /\ [][Next]_vars

(***************************************************************************)
(* A session of cycles, approvals, rejections and status requests.         *)
(***************************************************************************)
\* GET /api/agent/status.
GetAgentStatus ==
    /\ Issued < MaxOps
    /\ responses' = Append(responses,
          [op |-> "status", initialized |-> initialized,
           autonomous_mode |-> IF initialized THEN autonomous_mode ELSE FALSE,
           pending_actions |->
               IF initialized THEN Len(pending_actions) ELSE 0,
           actions_taken |-> IF initialized THEN Len(actions_taken) ELSE 0])
    /\ UNCHANGED <<initialized, autonomous_mode, actions_taken,
                   pending_actions, reasoning_chain, current_situation,
                   AGENT_LOG, nextUid, inflight>>

SessionFrames ==
    { <<DayScenarioB, DayScenarioB, DayScenarioB>>,
      <<DayEquipEnvFlu, DayEquipEnvFlu, DayEquipEnvFlu>> }

SessionNext ==
    \/ \E df \in SessionFrames, mode \in BOOLEAN : RunAgent(df, mode)
    \/ GetAgentStatus
    \/ \E c \in Clients, kind \in {"approve", "reject"},
          ref \in -1..Len(pending_actions) : Send(c, kind, ref)
    \/ \E c \in Clients : Handle(c)

SessionSpec == Init /\ [][SessionNext]_vars

(***************************************************************************)
(* One cycle on a fresh session, then approve(0) / reject(0) calls only,   *)
(* as the approval buttons of the dashboard issue them.                    *)
(***************************************************************************)
MaxCalls == 5

Calls == Cardinality({n \in DOMAIN responses : IsCall(responses[n])})

\* The caller presses Approve or Reject on the first pending action.
SendFirst(kind) ==
    /\ responses # <<>>
    /\ Calls < MaxCalls
    /\ inflight["c1"] = NoRequest
    /\ inflight' = [inflight EXCEPT
                      !["c1"] = [kind |-> kind, ref |-> 0,
                                 sentAt |-> Len(responses)]]
    /\ UNCHANGED <<initialized, autonomous_mode, actions_taken, pending_actions,
                   reasoning_chain, current_situation, AGENT_LOG, nextUid,
                   responses>>

DrainNext ==
    \/ \E df \in SessionFrames, mode \in BOOLEAN :
          responses = <<>> /\ RunAgent(df, mode)
    \/ \E kind \in {"approve", "reject"} : SendFirst(kind)
    \/ Handle("c1")

DrainSpec == Init /\ [][DrainNext]_vars

(***************************************************************************)
(* One cycle on a fresh session, over the days around every threshold.     *)
(* Each pair is <<total, occupied>>.                                       *)
(***************************************************************************)
BedLevels ==
    { <<200, 107>>, <<200, 149>>, <<200, 150>>, <<200, 179>>, <<200, 180>>,
      <<209, 188>>, <<503, 377>>, <<2000, 1799>> }

IcuLevels ==
    { <<30, 10>>, <<30, 21>>, <<30, 26>>, <<113, 96>>, <<203, 142>> }

VentilatorLevels == { <<20, 5>>, <<20, 15>>, <<20, 16>>, <<404, 323>> }

\* Staff on duty for a number of occupied beds: one per ten beds, 15 per 100
\* beds rounded down, and one more than that.
StaffLevels(occupied) ==
    { occupied \div 10, (15 * occupied) \div 100,
      (15 * occupied) \div 100 + 1 }

AqiLevels == {149, 150}

FluLevels == {49, 50}

\* Occupied beds gained over the three records of the series.
RiseLevels == {0, 15, 25}

Day(beds, icu, vent, staff, aqi, flu) ==
    [total_beds |-> beds[1], occupied_beds |-> beds[2],
     total_icu_beds |-> icu[1], occupied_icu |-> icu[2],
     total_ventilators |-> vent[1], ventilators_used |-> vent[2],
     staff_on_duty |-> staff, pollution |-> aqi, flu_cases |-> flu]

\* A three-day series ending in the given day.
Rising(day, rise) ==
    << [day EXCEPT !.occupied_beds = @ - rise], day, day >>

CycleFramesOf(beds) ==
    { Rising(Day(beds, icu, vent, staff, aqi, flu), rise) :
        icu \in IcuLevels, vent \in VentilatorLevels,
        staff \in StaffLevels(beds[2]),
        aqi \in AqiLevels, flu \in FluLevels, rise \in RiseLevels }

CycleFrames == UNION { CycleFramesOf(beds) : beds \in BedLevels }

CycleNext ==
    \E df \in CycleFrames, mode \in BOOLEAN :
        responses = <<>> /\ RunAgent(df, mode)

CycleSpec == Init /\ [][CycleNext]_vars

(***************************************************************************)
(* One cycle on a fresh session, over daily series of every length up to   *)
(* MaxDays and over three-day series of every bed delta up to MaxDelta.    *)
(***************************************************************************)
MaxDays == 7

MaxDelta == 30

\* Days below every threshold that differ in beds, ICU and flu cases.
TrendDays ==
    { [Normal EXCEPT !.occupied_beds = 100, !.occupied_icu = 10,
                     !.flu_cases = 10],
      [Normal EXCEPT !.occupied_beds = 112, !.occupied_icu = 13,
                     !.flu_cases = 17],
      [Normal EXCEPT !.occupied_beds = 125, !.occupied_icu = 15,
                     !.flu_cases = 40] }

SeriesFrames == UNION { [1..n -> TrendDays] : n \in 1..MaxDays }

DeltaFrames ==
    { << Normal, Normal, [Normal EXCEPT !.occupied_beds = @ + d] >> :
        d \in -MaxDelta..MaxDelta }

TrendFrames == SeriesFrames \cup DeltaFrames

TrendNext ==
    \E df \in TrendFrames, mode \in BOOLEAN :
        responses = <<>> /\ RunAgent(df, mode)

TrendSpec == Init /\ [][TrendNext]_vars

(***************************************************************************)
(* One cycle on a fresh session, over days with a zero total.              *)
(***************************************************************************)
ZeroBedLevels == { <<0, 0>>, <<0, 5>>, <<200, 100>>, <<200, 190>> }

ZeroIcuLevels == { <<0, 0>>, <<0, 3>>, <<30, 10>> }

ZeroVentilatorLevels == { <<0, 0>>, <<0, 2>>, <<20, 5>> }

ZeroTotalFrames ==
    { << Day(beds, icu, vent, 80, aqi, 10) >> :
        beds \in ZeroBedLevels, icu \in ZeroIcuLevels,
        vent \in ZeroVentilatorLevels, aqi \in AqiLevels }

ZeroTotalNext ==
    \E df \in ZeroTotalFrames, mode \in BOOLEAN :
        responses = <<>> /\ RunAgent(df, mode)

ZeroTotalSpec == Init /\ [][ZeroTotalNext]_vars

(***************************************************************************)
(* RISK SCORE: predictor_rulebased.predict_surge and the dashboard summary *)
(* (api.df_to_dashboard_response).  Averages are in tenths, ratios in      *)
(* thousandths, as predict_surge rounds them.                              *)
(***************************************************************************)
RollingWindow == 7

FLU_THRESHOLD == 50

POLLUTION_THRESHOLD == 100

BED_OCCUPANCY_THRESHOLD == 800

ICU_OCCUPANCY_THRESHOLD == 750

VENTILATOR_THRESHOLD == 700

STAFF_RATIO_MIN == 1000

RECURSIVE SumCol(_, _, _, _)
SumCol(df, col, from, to) ==
    IF from > to THEN 0 ELSE df[from][col] + SumCol(df, col, from + 1, to)

\* df[col].rolling(window=7, min_periods=1).mean().round(1) at row i.
RollingAvg(df, col, i) ==
    LET from == Max(1, i - RollingWindow + 1) IN
    RoundDiv(SumCol(df, col, from, i), i - from + 1, 10)

BoolToInt(b) == IF b THEN 1 ELSE 0

\* The six risk_* columns of row i.
RiskFlags(df, i) ==
    [risk_flu |->
        BoolToInt(RollingAvg(df, "flu_cases", i) > FLU_THRESHOLD * 10),
     risk_pollution |->
        BoolToInt(RollingAvg(df, "pollution", i) > POLLUTION_THRESHOLD * 10),
     risk_beds |->
        BoolToInt(RoundDiv(df[i].occupied_beds, df[i].total_beds, 1000)
                    > BED_OCCUPANCY_THRESHOLD),
     risk_icu |->
        BoolToInt(RoundDiv(df[i].occupied_icu, df[i].total_icu_beds, 1000)
                    > ICU_OCCUPANCY_THRESHOLD),
     risk_ventilators |->
        BoolToInt(RoundDiv(df[i].ventilators_used, df[i].total_ventilators,
                           1000) > VENTILATOR_THRESHOLD),
     risk_staff |->
        BoolToInt(RoundDiv(df[i].staff_on_duty, df[i].occupied_beds, 1000)
                    < STAFF_RATIO_MIN)]

\* df[risk_columns].sum(axis=1) of row i.
RiskScore(flags) ==
    flags.risk_flu + flags.risk_pollution + flags.risk_beds + flags.risk_icu
    + flags.risk_ventilators + flags.risk_staff

\* pd.cut(risk_score, bins=[-1, 0, 1, 2, 4, 6], labels=...).
RiskLevel(score) ==
    IF score <= 0 THEN "Normal"
    ELSE IF score <= 1 THEN "Low"
    ELSE IF score <= 2 THEN "Moderate"
    ELSE IF score <= 4 THEN "High"
    ELSE "Critical"

\* The frame with the columns predict_surge adds.
PredictSurge(df) ==
    [i \in DOMAIN df |->
        LET flags == RiskFlags(df, i) IN
        [flags |-> flags, risk_score |-> RiskScore(flags),
         risk_level |-> RiskLevel(RiskScore(flags))]]

\* The "triggered" values of the dashboard's risk factors, in list order.
DashboardFactors(latest) ==
    << latest.flu_cases > 50,
       latest.pollution > 100,
       latest.staff_on_duty < Max(latest.occupied_beds, 1),
       latest.occupied_beds * 10 > 8 * latest.total_beds,
       latest.occupied_icu * 100 > 75 * latest.total_icu_beds,
       latest.ventilators_used * 10 > 7 * latest.total_ventilators >>

\* GET /api/dashboard/summary: get_or_generate_data (with predict_surge),
\* then df_to_dashboard_response.
GetDashboardSummary(df) ==
    /\ Issued < MaxOps
    /\ LET predicted == PredictSurge(df)
           factors == DashboardFactors(ILoc(df, 1))
           triggered_count ==
               Cardinality({k \in DOMAIN factors : factors[k]})
       IN  responses' = Append(responses,
               [op |-> "dashboard", df |-> df, predicted |-> predicted,
                factors |-> factors,
                risk |-> [score |-> triggered_count, max_score |-> 6,
                          level |-> ILoc(predicted, 1).risk_level]])
    /\ UNCHANGED <<initialized, autonomous_mode, actions_taken,
                   pending_actions, reasoning_chain, current_situation,
                   AGENT_LOG, nextUid, inflight>>

\* Days around the risk thresholds.  Each pair is <<total, occupied>>.
RiskBedLevels == { <<200, 100>>, <<200, 160>>, <<200, 161>>, <<2499, 2000>> }

RiskIcuLevels == { <<30, 10>>, <<30, 23>> }

RiskVentilatorLevels == { <<20, 14>>, <<20, 15>> }

RiskStaffLevels == { 80, 150 }

RiskFluLevels == { 10, 50, 60 }

RiskAqiLevels == { 80, 120 }

RiskDays ==
    { Day(beds, icu, vent, staff, aqi, flu) :
        beds \in RiskBedLevels, icu \in RiskIcuLevels,
        vent \in RiskVentilatorLevels, staff \in RiskStaffLevels,
        aqi \in RiskAqiLevels, flu \in RiskFluLevels }

\* One-day series, and two-day series whose first day differs from the last
\* in flu cases and pollution.
RiskFrames ==
    { <<day>> : day \in RiskDays }
    \cup { << [day EXCEPT !.flu_cases = flu, !.pollution = aqi], day >> :
             day \in RiskDays, flu \in RiskFluLevels, aqi \in RiskAqiLevels }

RiskNext ==
    \E df \in RiskFrames : responses = <<>> /\ GetDashboardSummary(df)

RiskSpec == Init /\ [][RiskNext]_vars

(***************************************************************************)
(* Properties                                                              *)
(***************************************************************************)
Uids(actions) == {actions[i].uid : i \in DOMAIN actions}

Last(s) == s[Len(s)]

\* The state right after a run request was handled.
AfterRun == responses # <<>> /\ Last(responses).op = "run"

\* The state right after an approve or reject request was handled.
AfterCall == responses # <<>> /\ IsCall(Last(responses))

\* C1: right after a cycle, each planned action is in the executed history
\* (and not pending) iff it was planned with auto_executed set, or the cycle
\* ran in autonomous mode and the action does not require approval; every
\* other planned action is in the pending queue and not in the history.
C1_GateRule ==
    AfterRun =>
        LET r == Last(responses) IN
        \A k \in DOMAIN r.planned :
            LET a == r.planned[k] IN
            IF a.auto_executed \/ (r.autonomous_mode /\ ~a.requires_approval)
            THEN a.uid \in Uids(actions_taken)
                 /\ a.uid \notin Uids(pending_actions)
            ELSE a.uid \in Uids(pending_actions)
                 /\ a.uid \notin Uids(actions_taken)

\* C1 witness: an autonomous cycle that executed an action planned without
\* auto_executed and queued another one.
C1_Witness ==
    /\ AfterRun
    /\ Last(responses).autonomous_mode
    /\ \E k \in DOMAIN Last(responses).planned :
          LET a == Last(responses).planned[k] IN
          ~a.auto_executed /\ a.uid \in Uids(actions_taken)
    /\ \E k \in DOMAIN Last(responses).planned :
          Last(responses).planned[k].uid \in Uids(pending_actions)

\* C2: a reject(ref) sent after an approve(ref) of the same ref succeeded,
\* with no other request handled in between, fails.
C2_RejectAfterApproveFails ==
    \A i \in DOMAIN responses :
        (/\ i + 1 \in DOMAIN responses
         /\ responses[i].op = "approve"
         /\ responses[i].result = "True"
         /\ responses[i + 1].op = "reject"
         /\ responses[i + 1].action_id = responses[i].action_id
         /\ responses[i + 1].sentAt >= i)
        => responses[i + 1].result # "True"

\* C3: of two approve / reject requests with the same ref that were in
\* flight at the same time, at most one succeeds.
C3_ConcurrentCallsNotBothSucceed ==
    \A i, j \in DOMAIN responses :
        (/\ i < j
         /\ IsCall(responses[i])
         /\ IsCall(responses[j])
         /\ responses[i].action_id = responses[j].action_id
         /\ responses[j].sentAt < i)
        => ~(responses[i].result = "True" /\ responses[j].result = "True")

\* The latest run response before response j (0 when there is none).
LatestRunBefore(j) ==
    LET runs == {i \in 1..(j - 1) : responses[i].op = "run"}
    IN  IF runs = {} THEN 0 ELSE CHOOSE i \in runs : \A k \in runs : k <= i

\* C4: an approve or reject whose ref is the id the latest run response
\* reported for a pending action that no earlier call resolved succeeds
\* and resolves that action.
C4_ReportedIdResolvesSameAction ==
    \A j \in DOMAIN responses :
        IsCall(responses[j]) /\ LatestRunBefore(j) # 0 =>
            LET run == responses[LatestRunBefore(j)] IN
            \A k \in DOMAIN run.actions_pending :
                (/\ run.actions_pending[k].id = responses[j].action_id
                 /\ \A h \in 1..(j - 1) :
                        IsCall(responses[h])
                        => responses[h].uid # run.actions_pending[k].uid)
                => (/\ responses[j].result = "True"
                    /\ responses[j].uid = run.actions_pending[k].uid)

\* C5: handling an approve or reject whose ref is no position of the pending
\* queue returns False (no exception) and changes neither the pending
\* queue, nor the executed history, nor the audit log.
C5_UnknownRefFails ==
    [][\A c \in Clients :
          (/\ inflight[c] # NoRequest
           /\ inflight'[c] = NoRequest
           /\ initialized
           /\ ~(0 <= inflight[c].ref /\ inflight[c].ref < Len(pending_actions)))
          => (/\ Last(responses').result = "False"
              /\ pending_actions' = pending_actions
              /\ actions_taken' = actions_taken
              /\ AGENT_LOG' = AGENT_LOG)]_vars

\* C5 witness: a negative ref was refused while actions were pending.
C5_Witness ==
    /\ AfterCall
    /\ Last(responses).action_id < 0
    /\ Last(responses).result = "False"
    /\ pending_actions # <<>>

\* The pending action of identity uid, before a step.
PendingByUid(uid) ==
    pending_actions[CHOOSE i \in DOMAIN pending_actions :
                        pending_actions[i].uid = uid]

\* C6: every step only appends to the audit log, and appends: one entry
\* {action, type, auto=True} per action a cycle executed, in execution
\* order; one entry with auto=False, approved=True for a successful approve;
\* one entry with auto=False, approved=False for a successful reject;
\* nothing in every other step.
C6_AuditLogEntries ==
    [][LET old == Len(AGENT_LOG)
           added == SubSeq(AGENT_LOG', old + 1, Len(AGENT_LOG'))
           handled == responses' # responses
           r == Last(responses')
       IN  /\ Len(AGENT_LOG') >= old
           /\ SubSeq(AGENT_LOG', 1, old) = AGENT_LOG
           /\ IF handled /\ r.op = "run"
              THEN /\ Len(added) = Len(r.actions_executed)
                   /\ \A k \in DOMAIN added :
                        added[k] =
                            [action |-> r.actions_executed[k].description,
                             type |-> r.actions_executed[k].action_type,
                             auto |-> TRUE]
              ELSE IF handled /\ IsCall(r) /\ r.result = "True"
              THEN added =
                     << [action |-> PendingByUid(r.uid).description,
                         type |-> PendingByUid(r.uid).action_type,
                         auto |-> FALSE,
                         approved |-> (r.op = "approve")] >>
              ELSE added = <<>>]_vars

\* C6 witness: the log holds an automatic, an approved and a rejected entry.
C6_Witness ==
    /\ \E i \in DOMAIN AGENT_LOG : AGENT_LOG[i].auto
    /\ \E i \in DOMAIN AGENT_LOG :
          "approved" \in DOMAIN AGENT_LOG[i] /\ AGENT_LOG[i].approved
    /\ \E i \in DOMAIN AGENT_LOG :
          "approved" \in DOMAIN AGENT_LOG[i] /\ ~AGENT_LOG[i].approved

Occurrences(actions, uid) ==
    Cardinality({i \in DOMAIN actions : actions[i].uid = uid})

RejectedUids ==
    {responses[i].uid :
        i \in {j \in DOMAIN responses :
                 responses[j].op = "reject" /\ responses[j].result = "True"}}

ApprovedUids ==
    {responses[i].uid :
        i \in {j \in DOMAIN responses :
                 responses[j].op = "approve" /\ responses[j].result = "True"}}

AutoExecutedUids ==
    UNION {{responses[i].actions_executed[k].uid :
                k \in DOMAIN responses[i].actions_executed} :
           i \in {j \in DOMAIN responses : responses[j].op = "run"}}

\* C7: every action ever planned is in exactly one state: once rejected it
\* is in neither list; once executed (by a cycle or by an approve) it is
\* once in the executed history and not pending; otherwise it is once in
\* the pending queue and not in the history.
C7_ExactlyOneState ==
    \A uid \in 1..(nextUid - 1) :
        IF uid \in RejectedUids
        THEN /\ Occurrences(pending_actions, uid) = 0
             /\ Occurrences(actions_taken, uid) = 0
             /\ uid \notin ApprovedUids \cup AutoExecutedUids
        ELSE IF uid \in ApprovedUids \cup AutoExecutedUids
        THEN /\ Occurrences(pending_actions, uid) = 0
             /\ Occurrences(actions_taken, uid) = 1
        ELSE /\ Occurrences(pending_actions, uid) = 1
             /\ Occurrences(actions_taken, uid) = 0

\* C7 witness: an approved, a rejected and a pending action at once.
C7_Witness ==
    /\ ApprovedUids # {}
    /\ RejectedUids # {}
    /\ pending_actions # <<>>

AlwaysApprovalTypes == {"supply_order", "protocol_activation"}

\* C8: a supply order or protocol activation is in the executed history
\* only as approved (outcome "Approved and executed", auto_executed unset,
\* a successful approve resolved it); no cycle reports one as executed and
\* no audit entry with auto=True is of these types.
C8_AlwaysApprovalNeverAuto ==
    /\ \A i \in DOMAIN actions_taken :
          actions_taken[i].action_type \in AlwaysApprovalTypes
          => (/\ actions_taken[i].outcome = "Approved and executed"
              /\ ~actions_taken[i].auto_executed
              /\ actions_taken[i].uid \in ApprovedUids
              /\ actions_taken[i].uid \notin AutoExecutedUids)
    /\ \A i \in DOMAIN AGENT_LOG :
          AGENT_LOG[i].type \in AlwaysApprovalTypes => ~AGENT_LOG[i].auto

\* C8 witness: in autonomous mode, a supply order was approved and another
\* always-approval action is pending.
C8_Witness ==
    /\ autonomous_mode
    /\ \E i \in DOMAIN actions_taken :
          actions_taken[i].action_type = "supply_order"
    /\ \E i \in DOMAIN pending_actions :
          pending_actions[i].action_type = "protocol_activation"

\* C9: a cycle run with autonomous mode off executes nothing, adds no
\* audit entry and puts every planned action in the pending queue.
C9_ManualModeExecutesNothing ==
    [][(responses' # responses
        /\ Last(responses').op = "run"
        /\ ~Last(responses').autonomous_mode)
       => (/\ actions_taken' = actions_taken
           /\ AGENT_LOG' = AGENT_LOG
           /\ Last(responses').actions_executed = <<>>
           /\ \A k \in DOMAIN Last(responses').planned :
                 Last(responses').planned[k].uid \in Uids(pending_actions'))]_vars

AlwaysAutoAlert(issue) ==
    IF issue.type = "capacity_critical" /\ issue.resource = "icu"
    THEN "URGENT: ICU at critical capacity"
    ELSE IF issue.type = "staffing_shortage" THEN "Alert staffing office"
    ELSE IF issue.type = "environmental_alert" THEN "Environmental alert"
    ELSE IF issue.type = "trend_alert" THEN "Trend alert"
    ELSE "None"

ModeDependentTypes == {"diversion", "staff_call"}

HasIssue(issues, type, resource) ==
    \E n \in DOMAIN issues :
        issues[n].type = type /\ issues[n].resource = resource

HasAction(actions, action_type) ==
    \E k \in DOMAIN actions : actions[k].action_type = action_type

\* C11: right after a cycle, a bed-critical issue has a diversion planned and
\* a staffing shortage a staff callback; each of them requires approval
\* exactly when the cycle ran in manual mode, is in the executed history iff
\* the cycle was autonomous and in the pending queue iff it was manual.
C11_ModeDependentTemplates ==
    AfterRun =>
        LET r == Last(responses) IN
        /\ HasIssue(r.issues, "capacity_critical", "beds")
              => HasAction(r.planned, "diversion")
        /\ HasIssue(r.issues, "staffing_shortage", "staff")
              => HasAction(r.planned, "staff_call")
        /\ \A k \in DOMAIN r.planned :
              LET a == r.planned[k] IN
              a.action_type \in ModeDependentTypes =>
                  /\ a.requires_approval = ~r.autonomous_mode
                  /\ a.uid \in Uids(actions_taken) <=> r.autonomous_mode
                  /\ a.uid \in Uids(pending_actions) <=> ~r.autonomous_mode

\* An autonomous cycle executed its diversion and its staff callback while
\* the diversion of an earlier manual cycle is still pending.
C11_Witness ==
    /\ AfterRun
    /\ Last(responses).autonomous_mode
    /\ \A t \in ModeDependentTypes :
          \E k \in DOMAIN Last(responses).planned :
              LET a == Last(responses).planned[k] IN
              a.action_type = t /\ a.uid \in Uids(actions_taken)
    /\ HasAction(pending_actions, "diversion")

\* The exact ratio occupied / total is at least pct percent.
ExactAtLeast(occupied, total, pct) == occupied * 100 >= pct * total

\* The exact ratio staff / max(occupied beds, 1) is below 0.15.
ExactStaffShort(day) ==
    day.staff_on_duty * 1000 < staff_ratio_min * Max(day.occupied_beds, 1)

ExactBedsWarningBand(day) ==
    /\ ExactAtLeast(day.occupied_beds, day.total_beds, bed_occupancy_warning)
    /\ ~ExactAtLeast(day.occupied_beds, day.total_beds,
                     bed_occupancy_critical)

\* Nothing but the beds crosses a threshold on this day.
ExactNothingButBeds(day) ==
    /\ ~ExactAtLeast(day.occupied_icu, day.total_icu_beds,
                     icu_occupancy_warning)
    /\ ~ExactAtLeast(day.ventilators_used, day.total_ventilators,
                     ventilator_critical)
    /\ ~ExactStaffShort(day)
    /\ day.pollution < aqi_critical
    /\ day.flu_cases < flu_surge_threshold

RapidIncrease(situation) ==
    /\ situation.trends.direction = "increasing"
    /\ situation.trends.velocity = "rapid"

IsExecuted(r, description) ==
    \E k \in DOMAIN r.actions_executed :
        r.actions_executed[k].description = description

\* C12: a cycle on a day whose only threshold crossing is an exact bed
\* occupancy of at least 75% and below 90% (no rapid increase either) reports
\* exactly one issue, WARNING for beds, plans an alert of priority 3 that
\* does not require approval, and executes that alert iff the cycle is
\* autonomous.
C12_BedsWarningScenario ==
    AfterRun =>
        LET r == Last(responses)
            day == Last(r.df)
        IN  (/\ ExactBedsWarningBand(day)
             /\ ExactNothingButBeds(day)
             /\ ~RapidIncrease(r.situation))
            => /\ Len(r.issues) = 1
               /\ r.issues[1].severity = "WARNING"
               /\ r.issues[1].resource = "beds"
               /\ \E k \in DOMAIN r.planned :
                     /\ r.planned[k].action_type = "alert"
                     /\ r.planned[k].priority = 3
                     /\ ~r.planned[k].requires_approval
               /\ IsExecuted(r, "Alert bed management team")
                     <=> r.autonomous_mode

\* C13: the plan of every cycle is in descending priority, and two actions
\* of equal priority are in the order in which they were created (uid order:
\* issue by issue in detection order, template order within an issue).
C13_PlanSortedStable ==
    \A n \in DOMAIN responses :
        responses[n].op = "run" =>
            LET planned == responses[n].planned IN
            \A i, j \in DOMAIN planned :
                i < j =>
                    /\ planned[i].priority >= planned[j].priority
                    /\ planned[i].priority = planned[j].priority
                          => planned[i].uid < planned[j].uid

\* Beds critical, ICU critical and staff shortage: the two beds actions,
\* then the ICU alert, then the priority-4 actions, ICU before staff.
C13_Witness ==
    /\ AfterRun
    /\ [k \in DOMAIN Last(responses).planned |->
           Last(responses).planned[k].description]
         = << "Activate ambulance diversion protocol",
              "Activate surge capacity protocol",
              "URGENT: ICU at critical capacity",
              "Request ICU step-down evaluations",
              "Initiate emergency staff callback",
              "Alert staffing office" >>
    /\ [k \in DOMAIN Last(responses).planned |->
           Last(responses).planned[k].priority] = <<5, 5, 5, 4, 4, 4>>

IssuesOf(issues, resource) ==
    {n \in DOMAIN issues : issues[n].resource = resource}

\* Capacity issues of a resource, by severity.
CapacityIssues(issues, resource, severity) ==
    {n \in IssuesOf(issues, resource) : issues[n].severity = severity}

\* C14: in every cycle the issue list holds at most one issue for beds and
\* at most one for the ICU; when the exact occupancy is at or above the
\* critical threshold (beds 90%, ICU 85%) the resource has exactly one
\* EMERGENCY issue and no WARNING issue.
C14_CriticalSupersedesWarning ==
    \A n \in DOMAIN responses :
        responses[n].op = "run" =>
            LET r == responses[n]
                day == Last(r.df)
            IN  /\ Cardinality(IssuesOf(r.issues, "beds")) <= 1
                /\ Cardinality(IssuesOf(r.issues, "icu")) <= 1
                /\ ExactAtLeast(day.occupied_beds, day.total_beds,
                                bed_occupancy_critical)
                     => /\ Cardinality(CapacityIssues(r.issues, "beds",
                                                      "EMERGENCY")) = 1
                        /\ CapacityIssues(r.issues, "beds", "WARNING") = {}
                /\ ExactAtLeast(day.occupied_icu, day.total_icu_beds,
                                icu_occupancy_critical)
                     => /\ Cardinality(CapacityIssues(r.issues, "icu",
                                                      "EMERGENCY")) = 1
                        /\ CapacityIssues(r.issues, "icu", "WARNING") = {}

\* A cycle on a day with beds at exactly 90% and the ICU above 85%.
C14_Witness ==
    /\ AfterRun
    /\ LET day == Last(Last(responses).df) IN
        /\ day.occupied_beds * 100 = bed_occupancy_critical * day.total_beds
        /\ ExactAtLeast(day.occupied_icu, day.total_icu_beds,
                        icu_occupancy_critical)
    /\ CapacityIssues(Last(responses).issues, "beds", "EMERGENCY") # {}
    /\ CapacityIssues(Last(responses).issues, "icu", "EMERGENCY") # {}

\* The severity the threshold table gives a two-band resource, "None" when
\* the exact occupancy is below the warning threshold.
TableBand(occupied, total, warning, critical) ==
    IF ExactAtLeast(occupied, total, critical) THEN "EMERGENCY"
    ELSE IF ExactAtLeast(occupied, total, warning) THEN "WARNING"
    ELSE "None"

IssuedBand(issues, resource) ==
    IF IssuesOf(issues, resource) = {} THEN "None"
    ELSE issues[CHOOSE n \in IssuesOf(issues, resource) : TRUE].severity

\* C15: in every cycle an issue is emitted for a resource exactly when the
\* threshold table says so on the day's exact values: beds from 75%
\* (EMERGENCY from 90%), ICU from 70% (EMERGENCY from 85%), ventilators from
\* 80%, staff below 0.15, air quality from AQI 150, flu from 50 cases.
C15_IssuesFollowThresholdTable ==
    \A n \in DOMAIN responses :
        responses[n].op = "run" =>
            LET r == responses[n]
                day == Last(r.df)
            IN  /\ IssuedBand(r.issues, "beds")
                     = TableBand(day.occupied_beds, day.total_beds,
                                 bed_occupancy_warning, bed_occupancy_critical)
                /\ IssuedBand(r.issues, "icu")
                     = TableBand(day.occupied_icu, day.total_icu_beds,
                                 icu_occupancy_warning, icu_occupancy_critical)
                /\ IssuesOf(r.issues, "ventilators") # {}
                     <=> ExactAtLeast(day.ventilators_used,
                                      day.total_ventilators,
                                      ventilator_critical)
                /\ IssuesOf(r.issues, "staff") # {} <=> ExactStaffShort(day)
                /\ IssuesOf(r.issues, "air_quality") # {}
                     <=> day.pollution >= aqi_critical
                /\ IssuesOf(r.issues, "flu") # {}
                     <=> day.flu_cases >= flu_surge_threshold

DetectionOrder ==
    << "beds", "icu", "ventilators", "staff", "air_quality", "flu",
       "capacity" >>

DetectionRank(resource) ==
    CHOOSE k \in DOMAIN DetectionOrder : DetectionOrder[k] = resource

\* C16: in the issue list of every cycle each issue is for a resource of the
\* fixed order beds, ICU, ventilators, staff, air quality, flu, trend, and an
\* issue stands before every issue of a resource later in that order.
C16_DetectionOrderFixed ==
    \A n \in DOMAIN responses :
        LET issues == responses[n].issues IN
        /\ \A i \in DOMAIN issues :
              \E k \in DOMAIN DetectionOrder :
                  DetectionOrder[k] = issues[i].resource
        /\ \A i, j \in DOMAIN issues :
              i < j => DetectionRank(issues[i].resource)
                         < DetectionRank(issues[j].resource)

\* A cycle that reported all seven issues, in the fixed order.
C16_Witness ==
    /\ AfterRun
    /\ [k \in DOMAIN Last(responses).issues |->
           Last(responses).issues[k].resource] = DetectionOrder

TrendIssueSet(issues) ==
    {n \in DOMAIN issues :
        /\ issues[n].type = "trend_alert"
        /\ issues[n].resource = "capacity"
        /\ issues[n].severity = "WARNING"}

\* C17: in every cycle a trend issue (WARNING, capacity) is in the issue
\* list iff the perceived direction is increasing and the velocity rapid,
\* whether or not a beds issue is in the list; there is never more than one.
C17_TrendIssueIndependent ==
    \A n \in DOMAIN responses :
        responses[n].op = "run" =>
            LET r == responses[n] IN
            /\ TrendIssueSet(r.issues) # {} <=> RapidIncrease(r.situation)
            /\ Cardinality(TrendIssueSet(r.issues)) <= 1
            /\ IssuesOf(r.issues, "capacity") = TrendIssueSet(r.issues)

\* A rapid increase with bed occupancy below 75%: the trend issue alone.
C17_Witness ==
    /\ AfterRun
    /\ RapidIncrease(Last(responses).situation)
    /\ ~ExactAtLeast(Last(Last(responses).df).occupied_beds,
                     Last(Last(responses).df).total_beds,
                     bed_occupancy_warning)
    /\ Len(Last(responses).issues) = 1
    /\ TrendIssueSet(Last(responses).issues) = {1}

\* A rapid increase with beds in the warning band: both issues.
C17_WitnessTogether ==
    /\ AfterRun
    /\ RapidIncrease(Last(responses).situation)
    /\ IssuedBand(Last(responses).issues, "beds") = "WARNING"
    /\ TrendIssueSet(Last(responses).issues) # {}

\* The direction / velocity policy as a table on the delta D.
PolicyTable(D) ==
    IF D > 20 THEN <<"increasing", "rapid">>
    ELSE IF D > 10 THEN <<"increasing", "moderate">>
    ELSE IF D < -20 THEN <<"decreasing", "rapid">>
    ELSE IF D < -10 THEN <<"decreasing", "moderate">>
    ELSE <<"stable", "slow">>

\* C18: in every cycle the perceived direction and velocity are those the
\* policy table gives the perceived 3-day bed delta D: D > 20
\* increasing/rapid, 10 < D <= 20 increasing/moderate, D < -20
\* decreasing/rapid, -20 <= D < -10 decreasing/moderate, else stable/slow.
C18_TrendPolicy ==
    \A n \in DOMAIN responses :
        responses[n].op = "run" =>
            LET trends == responses[n].situation.trends IN
            <<trends.direction, trends.velocity>>
                = PolicyTable(trends.bed_change_3d)

\* A cycle on a series whose 3-day bed delta is exactly 20.
C18_Witness ==
    /\ AfterRun
    /\ Last(responses).situation.trends.bed_change_3d = 20
    /\ Last(responses).situation.trends.direction = "increasing"
    /\ Last(responses).situation.trends.velocity = "moderate"

\* The delta over N days of a daily series: the last record minus the
\* record N days before it.
DaysBack(df, col, N) == df[Len(df)][col] - df[Len(df) - N][col]

\* The delta the trends hold for N days.
BedChange(trends, N) ==
    IF N = 1 THEN trends.bed_change_1d
    ELSE IF N = 3 THEN trends.bed_change_3d
    ELSE trends.bed_change_7d

\* C19: in every cycle, for N = 1, 3, 7 the N-day bed delta is the last
\* record minus the record N days back when the series reaches that far
\* (for N = 3 also the ICU and flu deltas), and 0 when the series has fewer
\* than N records.
C19_TrendDeltas ==
    \A n \in DOMAIN responses :
        responses[n].op = "run" =>
            LET df == responses[n].df
                trends == responses[n].situation.trends
            IN  /\ \A N \in {1, 3, 7} :
                      /\ Len(df) > N
                           => BedChange(trends, N)
                                = DaysBack(df, "occupied_beds", N)
                      /\ Len(df) < N => BedChange(trends, N) = 0
                /\ Len(df) > 3
                     => /\ trends.icu_change_3d
                             = DaysBack(df, "occupied_icu", 3)
                        /\ trends.flu_change_3d
                             = DaysBack(df, "flu_cases", 3)
                /\ Len(df) < 3
                     => trends.icu_change_3d = 0 /\ trends.flu_change_3d = 0

\* The severities of the bands above the one the threshold table gives.
BandsAbove(band) ==
    IF band = "None" THEN {"WARNING", "CRITICAL", "EMERGENCY"}
    ELSE IF band = "WARNING" THEN {"EMERGENCY"}
    ELSE {}

\* C20: in every cycle the band of beds, ICU and ventilators follows the
\* exact ratio occupied / total: a resource whose exact occupancy is
\* strictly below a threshold has no issue of the band above it.
C20_ExactRatioClassified ==
    \A n \in DOMAIN responses :
        responses[n].op = "run" =>
            LET r == responses[n]
                day == Last(r.df)
            IN  /\ IssuedBand(r.issues, "beds") \notin
                     BandsAbove(TableBand(day.occupied_beds, day.total_beds,
                                          bed_occupancy_warning,
                                          bed_occupancy_critical))
                /\ IssuedBand(r.issues, "icu") \notin
                     BandsAbove(TableBand(day.occupied_icu,
                                          day.total_icu_beds,
                                          icu_occupancy_warning,
                                          icu_occupancy_critical))
                /\ ~ExactAtLeast(day.ventilators_used, day.total_ventilators,
                                 ventilator_critical)
                     => IssuesOf(r.issues, "ventilators") = {}

\* The number of flags that are set among the six of a record.
TrueFlags(flags) ==
    Cardinality({f \in DOMAIN flags : flags[f] = 1})

\* C21: for every record of a frame the risk score is the number of set
\* flags among the six threshold checks and lies in 0..6, and the score the
\* dashboard reports is the risk score of the latest record.
C21_RiskScoreIsFlagCount ==
    \A n \in DOMAIN responses :
        responses[n].op = "dashboard" =>
            LET r == responses[n] IN
            /\ \A i \in DOMAIN r.predicted :
                  /\ r.predicted[i].risk_score
                       = TrueFlags(r.predicted[i].flags)
                  /\ r.predicted[i].risk_score \in 0..6
            /\ r.risk.score = Last(r.predicted).risk_score

CycleCompleted == \E n \in DOMAIN responses : responses[n].op = "run"

\* C22: in every state after a completed cycle the reasoning trace is
\* exactly PERCEPTION, REASONING, PLANNING, EXECUTION: nothing of earlier
\* cycles or of other requests on the session is in it.
C22_TraceIsOneCycle ==
    CycleCompleted =>
        reasoning_chain = <<"PERCEPTION", "REASONING", "PLANNING", "EXECUTION">>

HasZeroTotal(day) ==
    \/ day.total_beds = 0
    \/ day.total_icu_beds = 0
    \/ day.total_ventilators = 0

\* C23: a cycle whose latest record has a zero total_beds, total_icu_beds
\* or total_ventilators reports no issues and no actions and leaves the
\* pending queue, the executed history and the audit log as they were.
C23_ZeroTotalFailsFast ==
    [][(/\ responses' # responses
        /\ Last(responses').op = "run"
        /\ HasZeroTotal(Last(Last(responses').df)))
       => (/\ Last(responses').issues = <<>>
           /\ Last(responses').planned = <<>>
           /\ pending_actions' = pending_actions
           /\ actions_taken' = actions_taken
           /\ AGENT_LOG' = AGENT_LOG)]_vars

\* The number of actions planned by the cycles among the first n responses.
RECURSIVE PlannedUpTo(_)
PlannedUpTo(n) ==
    IF n = 0 THEN 0
    ELSE PlannedUpTo(n - 1)
         + (IF responses[n].op = "run" THEN Len(responses[n].planned) ELSE 0)

SuccessfulRejects ==
    Cardinality({n \in DOMAIN responses :
                   responses[n].op = "reject" /\ responses[n].result = "True"})

\* C24: in every state of a session the number of actions planned so far
\* is |pending queue| + |executed history| + successful rejects, the audit
\* log has |executed history| + successful rejects entries, and a status
\* response reports the two lengths of the state it was answered in.
C24_Conservation ==
    /\ PlannedUpTo(Len(responses))
         = Len(pending_actions) + Len(actions_taken) + SuccessfulRejects
    /\ Len(AGENT_LOG) = Len(actions_taken) + SuccessfulRejects
    /\ (responses # <<>> /\ Last(responses).op = "status")
         => /\ Last(responses).pending_actions = Len(pending_actions)
            /\ Last(responses).actions_taken = Len(actions_taken)

\* A status answered after a cycle and a successful reject, with actions
\* both pending and executed.
C24_Witness ==
    /\ responses # <<>>
    /\ Last(responses).op = "status"
    /\ Last(responses).pending_actions > 0
    /\ Last(responses).actions_taken > 0
    /\ SuccessfulRejects = 1

IsRunStep == responses' # responses /\ Last(responses').op = "run"

\* C25: a cycle keeps the pending queue it found as a prefix of the new
\* queue (same actions, same positions, same flags), appends this cycle's
\* pending actions behind it, and executes only actions of this cycle,
\* whatever the mode of the cycle.
C25_CycleKeepsPendingQueue ==
    [][IsRunStep =>
        LET r == Last(responses') IN
        /\ Len(pending_actions') = Len(pending_actions) + Len(r.actions_pending)
        /\ SubSeq(pending_actions', 1, Len(pending_actions)) = pending_actions
        /\ \A k \in DOMAIN r.actions_pending :
              pending_actions'[Len(pending_actions) + k].uid
                  = r.actions_pending[k].uid
        /\ SubSeq(actions_taken', 1, Len(actions_taken)) = actions_taken
        /\ \A k \in (Len(actions_taken) + 1)..Len(actions_taken') :
              actions_taken'[k].uid \in Uids(r.planned)]_vars

\* A manual cycle, then an autonomous cycle on the same frame: the queue of
\* the first cycle is still in place, followed by a second copy of the
\* actions that need approval in both modes.
C25_Witness ==
    /\ Len(responses) = 2
    /\ responses[1].op = "run" /\ responses[2].op = "run"
    /\ responses[1].df = responses[2].df
    /\ ~responses[1].autonomous_mode /\ responses[2].autonomous_mode
    /\ responses[1].actions_pending # <<>>
    /\ responses[2].actions_pending # <<>>
    /\ Len(pending_actions)
         = Len(responses[1].actions_pending) + Len(responses[2].actions_pending)
    /\ \A k \in DOMAIN responses[1].actions_pending :
          /\ pending_actions[k].uid = responses[1].actions_pending[k].uid
          /\ ~pending_actions[k].auto_executed
    /\ \E k \in DOMAIN responses[2].actions_pending :
          pending_actions[Len(responses[1].actions_pending) + k].description
              = pending_actions[1].description

IsSuccessStep ==
    /\ responses' # responses
    /\ IsCall(Last(responses'))
    /\ Last(responses').result = "True"

\* The queue without its element at 0-based position i.
Without(queue, i) ==
    [k \in 1..(Len(queue) - 1) |->
        IF k <= i THEN queue[k] ELSE queue[k + 1]]

\* C26: a successful approve(i) or reject(i) leaves the pending queue as it
\* was without the action at position i, the others in their order; approve
\* appends that action, with its outcome set, to the end of the executed
\* history and nothing else, reject leaves the executed history unchanged.
C26_ResolveRemovesPositionI ==
    [][IsSuccessStep =>
        LET r == Last(responses')
            i == r.action_id
        IN  /\ i \in 0..(Len(pending_actions) - 1)
            /\ pending_actions' = Without(pending_actions, i)
            /\ r.op = "approve"
                 => actions_taken'
                      = Append(actions_taken,
                               [pending_actions[i + 1] EXCEPT
                                   !.outcome = "Approved and executed"])
            /\ r.op = "reject" => actions_taken' = actions_taken]_vars

\* A successful approve of the second of at least three pending actions.
C26_Witness ==
    /\ AfterCall
    /\ Last(responses).op = "approve"
    /\ Last(responses).result = "True"
    /\ Last(responses).action_id = 1
    /\ Len(pending_actions) >= 2
    /\ Last(actions_taken).uid = Last(responses).uid

PendingUnresolved(action) ==
    ~action.auto_executed /\ action.outcome = "None"

ExecutedOnce(action) ==
    \/ action.auto_executed /\ action.outcome = "Executed automatically"
    \/ ~action.auto_executed /\ action.outcome = "Approved and executed"

\* C27: after every step no pending action has auto_executed set or an
\* outcome, every action of the executed history is either auto_executed
\* with outcome "Executed automatically" or not auto_executed with outcome
\* "Approved and executed", and the entries already in the history are
\* unchanged: an outcome, once set, is never set again.
C27_FlagsAndOutcomes ==
    [][/\ \A k \in DOMAIN pending_actions' :
             PendingUnresolved(pending_actions'[k])
       /\ \A k \in DOMAIN actions_taken' : ExecutedOnce(actions_taken'[k])
       /\ SubSeq(actions_taken', 1, Len(actions_taken)) = actions_taken
       /\ \A k \in DOMAIN pending_actions' :
             pending_actions'[k].uid \notin Uids(actions_taken)]_vars

\* The executed history holds an action executed by an autonomous cycle
\* that was planned without the flag, and an approved one.
C27_Witness ==
    /\ \E k \in DOMAIN actions_taken :
          /\ actions_taken[k].action_type = "diversion"
          /\ actions_taken[k].auto_executed
    /\ \E k \in DOMAIN actions_taken :
          actions_taken[k].outcome = "Approved and executed"
    /\ pending_actions # <<>>

\* The planned actions that stem from the n-th issue of a cycle: those
\* with a description of the issue's templates.
ActionsForIssue(r, n) ==
    LET templates == PlanIssue(r.issues[n], r.autonomous_mode) IN
    {k \in DOMAIN r.planned :
        \E j \in DOMAIN templates :
            r.planned[k].description = templates[j].description}

\* C28: in every cycle a non-empty issue list yields a non-empty plan, with
\* at least one action for each issue of the list.
C28_EveryIssuePlanned ==
    \A m \in DOMAIN responses :
        responses[m].op = "run" =>
            LET r == responses[m] IN
            /\ r.issues # <<>> => r.planned # <<>>
            /\ \A n \in DOMAIN r.issues : ActionsForIssue(r, n) # {}

\* C29: after a cycle that left n actions pending and with no further
\* cycle, of any sequence of approve(0) / reject(0) calls exactly the first
\* n succeed, each shrinking the pending queue by one; then the queue is
\* empty and every further call returns False.
C29_QueueDrains ==
    responses # <<>> =>
        LET n == Len(responses[1].actions_pending)
            done == Len(responses) - 1
        IN  /\ \A k \in 2..Len(responses) :
                  responses[k].result = IF k - 1 <= n THEN "True" ELSE "False"
            /\ Len(pending_actions) = IF done <= n THEN n - done ELSE 0

\* Four pending actions resolved by four calls, and a fifth call refused.
C29_Witness ==
    /\ Len(responses) = 6
    /\ Len(responses[1].actions_pending) = 4
    /\ \E k \in 2..5 : responses[k].op = "approve"
    /\ \E k \in 2..5 : responses[k].op = "reject"
    /\ responses[6].result = "False"
    /\ pending_actions = <<>>

IsAnalysisStep ==
    responses' # responses /\ Last(responses').op = "analysis"

\* C30: an analysis request leaves the pending queue, the executed history,
\* the audit log and the autonomous-mode flag as they were, while it runs
\* the issue detection (a REASONING entry is added to the trace).
C30_AnalysisReadOnly ==
    [][IsAnalysisStep =>
        /\ pending_actions' = pending_actions
        /\ actions_taken' = actions_taken
        /\ AGENT_LOG' = AGENT_LOG
        /\ autonomous_mode' = autonomous_mode
        /\ Len(reasoning_chain') > Len(reasoning_chain)
        /\ Last(reasoning_chain') = "REASONING"]_vars

\* An analysis that reported issues on an autonomous session with pending
\* and executed actions.
C30_Witness ==
    /\ responses # <<>>
    /\ Last(responses).op = "analysis"
    /\ Last(responses).issues # <<>>
    /\ autonomous_mode
    /\ pending_actions # <<>>
    /\ actions_taken # <<>>
====
